---- MODULE Spec2Model ----
\* A model of the GELF chunk reassembly engine of sqlx_logger (src/src/gelf.rs):
\* GELFState::on_data, GELFState::clean_up and MessageState::try_merge, with the
\* wire format built as tests::new_chunk_message builds it.
EXTENDS Integers, Sequences, FiniteSets, TLC

\* ------------------------------------------------------------------ bounds
\* Sequence numbers delivered are 0..MaxSeq and the clock (whole seconds) runs
\* over 0..MaxClock.
MaxSeq == 2
MaxClock == 1
MaxBatch == 2
MaxInserts == 3

\* ------------------------------------------------------- program constants
CHUNKED_MAGIC_BYTES == <<30, 15>>
MAX_CHUNKED_MESSAGE_DURATION == 120
HeaderLen == 12
U8Modulus == 256
DefaultBatch == 10

\* ------------------------------------------------------------------ inputs
\* Two 8-byte message identifiers.
IdA == <<0, 0, 0, 0, 0, 0, 0, 0>>
IdB == <<0, 0, 0, 0, 0, 0, 0, 1>>
MessageIDs == { IdA, IdB }
SeqValues == 0..MaxSeq
\* Totals that reach the merger: 2 .. MaxSeq + 1, so that for every total but
\* the largest some delivered sequence number lies outside [0, total).
MergeTotals == 2..(MaxSeq + 1)
\* Payload slices a fragment with a given sequence number may carry: a letter
\* of its own ("A", "B", "C", ..), or one byte of U+00E9 split across fragments
\* (0xC3 for fragment 0, 0xA9 for the others; neither alone is valid UTF-8,
\* 0xC3 0xA9 is).
LetterA == 65
Utf8Lead == 195
Utf8Cont == 169
Payloads(seq) == { <<LetterA + seq>>, IF seq = 0 THEN <<Utf8Lead>> ELSE <<Utf8Cont>> }
\* Whole messages: "A" (valid UTF-8) and a lone 0xC3 (not valid).
WholeTexts == { <<LetterA>>, <<Utf8Lead>> }
\* clean_up(now) is called with now = clock + one of these offsets (seconds).
CleanUpOffsets == { 0, 119, 120, 121 }

\* tests::new_chunk_message: magic, id, seq, total, payload.
new_chunk_message(id, seq, total, msg) ==
    CHUNKED_MAGIC_BYTES \o id \o <<seq, total>> \o msg

\* Fragments of multi-fragment messages: every sequence number, total and
\* payload for IdA, and the two fragments of one two-fragment message for IdB.
OtherBuffers ==
    { new_chunk_message(IdB, 0, 2, <<Utf8Lead>>), new_chunk_message(IdB, 1, 2, <<Utf8Cont>>) }
FragmentBuffers ==
    UNION { { new_chunk_message(IdA, s, t, p) : t \in MergeTotals, p \in Payloads(s) } :
              s \in SeqValues }
        \cup OtherBuffers
\* Chunked buffers with total_chunks 0 and 1.
ZeroTotalBuffers == { new_chunk_message(IdA, 0, 0, <<LetterA>>) }
SingleBuffers == { new_chunk_message(IdA, 0, 1, p) : p \in WholeTexts }
\* Buffers that start with the magic marker and are shorter than the header.
ShortBuffers ==
    { SubSeq(new_chunk_message(IdA, 0, 2, <<>>), 1, n) : n \in {2, 11} }
\* Buffers that do not start with the magic marker.
\* Buffers without the magic marker: the texts, the empty buffer, and the first
\* magic byte alone.
UnchunkedBuffers == WholeTexts \cup { <<>>, <<CHUNKED_MAGIC_BYTES[1]>> }
Buffers ==
    FragmentBuffers \cup ZeroTotalBuffers \cup SingleBuffers
        \cup ShortBuffers \cup UnchunkedBuffers

\* ------------------------------------------------------------------ results
\* anyhow::Result<Option<Cow<str>>>
OkNone == [kind |-> "None", text |-> <<>>, err |-> ""]
OkSome(t) == [kind |-> "Some", text |-> t, err |-> ""]
Err(e) == [kind |-> "Err", text |-> <<>>, err |-> e]
ErrHeader == Err("Invalid chunked header")
ErrTotal == Err("Total seq is 0")
ErrDecode == Err("Converting data into UTF-8 string")

\* ------------------------------------------------------------ UTF-8 decoding
IsCont(b) == b >= 128 /\ b <= 191

\* std::str::from_utf8 / String::from_utf8: well-formed UTF-8 (no overlong
\* forms, no surrogates, nothing above U+10FFFF).
RECURSIVE Utf8ValidFrom(_, _)
Utf8ValidFrom(d, i) ==
    IF i > Len(d) THEN TRUE
    ELSE LET b == d[i]
             has(n) == i + n <= Len(d)
         IN  IF b < 128 THEN Utf8ValidFrom(d, i + 1)
             ELSE IF b >= 194 /\ b <= 223
                  THEN has(1) /\ IsCont(d[i + 1]) /\ Utf8ValidFrom(d, i + 2)
             ELSE IF b >= 224 /\ b <= 239
                  THEN /\ has(2)
                       /\ IsCont(d[i + 1]) /\ IsCont(d[i + 2])
                       /\ (b = 224 => d[i + 1] >= 160)
                       /\ (b = 237 => d[i + 1] <= 159)
                       /\ Utf8ValidFrom(d, i + 3)
             ELSE IF b >= 240 /\ b <= 244
                  THEN /\ has(3)
                       /\ IsCont(d[i + 1]) /\ IsCont(d[i + 2]) /\ IsCont(d[i + 3])
                       /\ (b = 240 => d[i + 1] >= 144)
                       /\ (b = 244 => d[i + 1] <= 143)
                       /\ Utf8ValidFrom(d, i + 4)
             ELSE FALSE

Utf8Valid(d) == Utf8ValidFrom(d, 1)

data_to_str(data) == IF Utf8Valid(data) THEN OkSome(data) ELSE ErrDecode

\* ------------------------------------------------------------ u8 arithmetic
U8(x) == x % U8Modulus

\* --------------------------------------------------------------- try_merge
MergeChunk(seq, data) == [start |-> seq, end |-> seq, data |-> data]

\* Mutant: the end of the run compared with "<=".
compare_chunk_EndInclusive(chunk, seq) ==
    IF chunk.start > seq THEN "Greater"
    ELSE IF chunk.end <= seq THEN "Less"
    ELSE "Equal"

\* Mutant: the two orderings exchanged.
compare_chunk_Swapped(chunk, seq) ==
    IF chunk.start > seq THEN "Less"
    ELSE IF chunk.end < seq THEN "Greater"
    ELSE "Equal"

compare_chunk(chunk, seq) ==
    IF chunk.start > seq THEN "Greater"
    ELSE IF chunk.end < seq THEN "Less"
    ELSE "Equal"

\* slice::binary_search_by over 0-based [left, right): Ok(mid) or Err(left).
RECURSIVE binary_search_by(_, _, _, _)
binary_search_by(chunks, seq, left, right) ==
    IF left < right
    THEN LET mid == left + ((right - left) \div 2)
             cmp == compare_chunk(chunks[mid + 1], seq)
         IN  IF cmp = "Less" THEN binary_search_by(chunks, seq, mid + 1, right)
             ELSE IF cmp = "Greater" THEN binary_search_by(chunks, seq, left, mid)
             ELSE [found |-> TRUE, index |-> mid]
    ELSE [found |-> FALSE, index |-> left]

\* Vec::insert at a 0-based index.
VecInsert(v, index, e) ==
    SubSeq(v, 1, index) \o <<e>> \o SubSeq(v, index + 1, Len(v))

\* Mutant: a fragment just before the start of the following run is put in
\* front of that run's data instead of getting a run of its own.
MergeAt_JoinsNext(chunks, index, seq, data) ==
    IF index < Len(chunks) /\ chunks[index + 1].start = U8(seq + 1)
    THEN [chunks EXCEPT ![index + 1] =
             [start |-> seq, end |-> @.end, data |-> data \o @.data]]
    ELSE IF index = 0
    THEN VecInsert(chunks, 0, MergeChunk(seq, data))
    ELSE LET last_chunk == chunks[index]
         IN  IF U8(last_chunk.end + 1) = seq
             THEN [chunks EXCEPT ![index] =
                      [start |-> last_chunk.start,
                       end |-> U8(last_chunk.end + 1),
                       data |-> last_chunk.data \o data]]
             ELSE VecInsert(chunks, index, MergeChunk(seq, data))

\* Mutant: the run before the insertion point is never extended.
MergeAt_NeverExtends(chunks, index, seq, data) ==
    VecInsert(chunks, index, MergeChunk(seq, data))

\* The run list after a fragment that no run covers (Err(index) arm).
MergeAt(chunks, index, seq, data) ==
    IF index = 0
    THEN VecInsert(chunks, 0, MergeChunk(seq, data))
    ELSE LET last_chunk == chunks[index]
         IN  IF U8(last_chunk.end + 1) = seq
             THEN [chunks EXCEPT ![index] =
                      [start |-> last_chunk.start,
                       end |-> U8(last_chunk.end + 1),
                       data |-> last_chunk.data \o data]]
             ELSE VecInsert(chunks, index, MergeChunk(seq, data))

\* Mutant: the gap test written ">= 1", which takes adjacent runs for a gap.
are_chunks_continuous_Strict(chunks) ==
    \A i \in 1..(Len(chunks) - 1) :
        ~(U8(chunks[i + 1].start - chunks[i].end) >= 1)

are_chunks_continuous(chunks) ==
    \A i \in 1..(Len(chunks) - 1) :
        ~(U8(chunks[i + 1].start - chunks[i].end) > 1)

\* Mutant: the completion test without its continuity conjunct.
HasFullData_NoContinuity(chunks, total_seq) ==
    /\ chunks[Len(chunks)].end = U8(total_seq - 1)
    /\ chunks[1].start = 0

\* "Check if we have full data"
HasFullData(chunks, total_seq) ==
    /\ chunks[Len(chunks)].end = U8(total_seq - 1)
    /\ chunks[1].start = 0
    /\ are_chunks_continuous(chunks)

RECURSIVE ConcatChunks(_)
ConcatChunks(chunks) ==
    IF chunks = <<>> THEN <<>>
    ELSE Head(chunks).data \o ConcatChunks(Tail(chunks))

\* Mutant: every fragment's payload is decoded on arrival, so a fragment that
\* splits a multi-byte character is an error.
try_merge_EagerDecode(self, seq, data) ==
    LET r == binary_search_by(self.sorted_chunks, seq, 0, Len(self.sorted_chunks))
    IN  IF ~Utf8Valid(data)
        THEN [state |-> self, rs |-> ErrDecode]
        ELSE IF r.found
        THEN [state |-> self, rs |-> OkNone]
        ELSE LET merged == MergeAt(self.sorted_chunks, r.index, seq, data)
             IN  IF HasFullData(merged, self.total_seq)
                 THEN [state |-> [self EXCEPT !.sorted_chunks = <<>>],
                       rs |-> data_to_str(ConcatChunks(merged))]
                 ELSE [state |-> [self EXCEPT !.sorted_chunks = merged],
                       rs |-> OkNone]

\* Mutant: a fragment whose sequence number a run already covers is appended
\* to that run instead of being ignored.
try_merge_DupAppends(self, seq, data) ==
    LET r == binary_search_by(self.sorted_chunks, seq, 0, Len(self.sorted_chunks))
    IN  IF r.found
        THEN [state |-> [self EXCEPT !.sorted_chunks[r.index + 1].data = @ \o data],
              rs |-> OkNone]
        ELSE LET merged == MergeAt(self.sorted_chunks, r.index, seq, data)
             IN  IF HasFullData(merged, self.total_seq)
                 THEN [state |-> [self EXCEPT !.sorted_chunks = <<>>],
                       rs |-> data_to_str(ConcatChunks(merged))]
                 ELSE [state |-> [self EXCEPT !.sorted_chunks = merged],
                       rs |-> OkNone]

\* MessageState::try_merge: the state after the call and the value returned.
try_merge(self, seq, data) ==
    LET r == binary_search_by(self.sorted_chunks, seq, 0, Len(self.sorted_chunks))
    IN  IF r.found
        THEN [state |-> self, rs |-> OkNone]
        ELSE LET merged == MergeAt(self.sorted_chunks, r.index, seq, data)
             IN  IF HasFullData(merged, self.total_seq)
                 THEN [state |-> [self EXCEPT !.sorted_chunks = <<>>],
                       rs |-> data_to_str(ConcatChunks(merged))]
                 ELSE [state |-> [self EXCEPT !.sorted_chunks = merged],
                       rs |-> OkNone]

\* ------------------------------------------------------------------- state
VARIABLES
    messages,   \* GELFState.messages: MessageID -> MessageState (a partial map)
    clock,      \* Instant::now(), in whole seconds
    rs,         \* the value the last on_data call returned
    call,       \* the last call: its operation and arguments
    \* History of the calls, kept beside the program's state (the program does
    \* not read it). A round of an identifier starts with the first fragment
    \* routed to the merger for it and ends when a call for it returns a text
    \* or a decode error, or when clean_up removes its state.
    got,        \* per identifier: sequence number -> payload first delivered this round
    decl,       \* per identifier: total_chunks declared by the round's first fragment (0: no round)
    born,       \* per identifier: the clock at the round's first fragment
    created,    \* per identifier: the clock and the declared total at the call that inserted its present entry
    sent,       \* MessageSpec only: the calls made so far, in order
    \* main.rs: one client served by serve_client.
    db_batch,   \* Args::db_batch
    filter,     \* Args::filter
    pc,         \* where serve_client / do_process_log stands
    tx,         \* serve_client's tx: Option<Transaction>, "none" or "open"
    num_inserts,\* do_process_log's counter
    result,     \* rs of serve_client: "none" until do_process_log returns
    \* History of the inserts (the program does not read it).
    pending,    \* inserts executed in the transaction and not yet committed
    inserted,   \* inserts executed so far
    covered     \* inserts that a commit call has covered so far

ingest == <<db_batch, filter, pc, tx, num_inserts, result, pending, inserted, covered>>
vars == <<messages, clock, rs, call, got, decl, born, created, sent, ingest>>
hist == <<got, decl, born, created>>

\* A call: on_data(data), or clean_up(now) with the identifiers it removed.
OnDataCall(data) == [op |-> "on_data", data |-> data, now |-> 0, removed |-> {}]
CleanUpCall(now, removed) == [op |-> "clean_up", data |-> <<>>, now |-> now, removed |-> removed]
NoCall == [op |-> "none", data |-> <<>>, now |-> 0, removed |-> {}]

\* GELFState::default(): an empty map.
EmptyIndex == [k \in {} |-> 0]

\* No payload delivered for a sequence number (no byte is -1).
Absent == <<-1>>
NoneGot == [s \in SeqValues |-> Absent]
Received(g) == { s \in SeqValues : g[s] # Absent }
NotCreated == [at |-> 0, total |-> 0]

\* The engine after GELFState::default().
GelfInit ==
    /\ messages = EmptyIndex
    /\ clock = 0
    /\ rs = OkNone
    /\ call = NoCall
    /\ got = [id \in MessageIDs |-> NoneGot]
    /\ decl = [id \in MessageIDs |-> 0]
    /\ born = [id \in MessageIDs |-> 0]
    /\ created = [id \in MessageIDs |-> NotCreated]
    /\ sent = <<>>

\* serve_client as it is entered, for the arguments batch and format.
ServeInit(batch, format) ==
    /\ db_batch = batch
    /\ filter = format
    /\ pc = "prepare"
    /\ tx = "none"
    /\ num_inserts = 0
    /\ result = "none"
    /\ pending = 0
    /\ inserted = 0
    /\ covered = 0

Init == GelfInit /\ ServeInit(DefaultBatch, "Any")

\* data.starts_with(CHUNKED_MAGIC_BYTES)
StartsWithMagic(data) ==
    /\ Len(data) >= Len(CHUNKED_MAGIC_BYTES)
    /\ SubSeq(data, 1, Len(CHUNKED_MAGIC_BYTES)) = CHUNKED_MAGIC_BYTES

\* The header fields and the payload slice of a buffer of at least 12 bytes.
HeaderId(data) == SubSeq(data, 3, 10)
HeaderSeq(data) == data[11]
HeaderTotal(data) == data[12]
PayloadOf(data) == SubSeq(data, HeaderLen + 1, Len(data))

\* Mutant: an entry that exists takes the total of the fragment at hand.
EntryOrInsert_LastTotal(msgs, id, total_seq, now) ==
    IF id \in DOMAIN msgs THEN [msgs[id] EXCEPT !.total_seq = total_seq]
    ELSE [first_arrived |-> now, total_seq |-> total_seq, sorted_chunks |-> <<>>]

\* messages.entry(id).or_insert_with(..)
EntryOrInsert(msgs, id, total_seq, now) ==
    IF id \in DOMAIN msgs THEN msgs[id]
    ELSE [first_arrived |-> now, total_seq |-> total_seq, sorted_chunks |-> <<>>]

MapPut(msgs, id, state) ==
    [k \in (DOMAIN msgs) \cup {id} |-> IF k = id THEN state ELSE msgs[k]]

\* Mutant: the whole map is cleared where one key is to be removed.
MapRemove_Clear(msgs, id) ==
    [k \in {} |-> 0]

MapRemove(msgs, id) ==
    [k \in (DOMAIN msgs) \ {id} |-> msgs[k]]

\* The index after on_data routed a fragment to try_merge and got m.rs back.
AfterMerge(msgs, id, m) ==
    IF m.rs.kind = "Some" THEN MapRemove(msgs, id) ELSE MapPut(msgs, id, m.state)

\* Mutant: the entry is looked up (and inserted) before total_chunks is
\* matched, so a fragment with total_chunks 0 or 1 leaves an entry behind.
on_data_InsertFirst(msgs, data, now) ==
    IF StartsWithMagic(data)
    THEN IF Len(data) < HeaderLen
         THEN [messages |-> msgs, rs |-> ErrHeader]
         ELSE LET id == HeaderId(data)
                  seq == HeaderSeq(data)
                  total_seq == HeaderTotal(data)
                  rest == PayloadOf(data)
                  withEntry == MapPut(msgs, id, EntryOrInsert(msgs, id, total_seq, now))
              IN  IF total_seq = 0 THEN [messages |-> withEntry, rs |-> ErrTotal]
                  ELSE IF total_seq = 1
                       THEN [messages |-> withEntry, rs |-> data_to_str(rest)]
                  ELSE LET m == try_merge(withEntry[id], seq, rest)
                       IN  [messages |-> AfterMerge(msgs, id, m), rs |-> m.rs]
    ELSE [messages |-> msgs, rs |-> data_to_str(data)]

\* Mutant: the marker test looks at the first magic byte only.
on_data_FirstMagicByte(msgs, data, now) ==
    IF Len(data) >= 1 /\ data[1] = CHUNKED_MAGIC_BYTES[1]
    THEN IF Len(data) < HeaderLen
         THEN [messages |-> msgs, rs |-> ErrHeader]
         ELSE LET id == HeaderId(data)
                  seq == HeaderSeq(data)
                  total_seq == HeaderTotal(data)
                  rest == PayloadOf(data)
              IN  IF total_seq = 0 THEN [messages |-> msgs, rs |-> ErrTotal]
                  ELSE IF total_seq = 1
                       THEN [messages |-> msgs, rs |-> data_to_str(rest)]
                  ELSE LET m == try_merge(EntryOrInsert(msgs, id, total_seq, now),
                                          seq, rest)
                       IN  [messages |-> AfterMerge(msgs, id, m), rs |-> m.rs]
    ELSE [messages |-> msgs, rs |-> data_to_str(data)]

\* Mutant: no fast path, a fragment with total_chunks = 1 goes to the merger.
on_data_NoFastPath(msgs, data, now) ==
    IF StartsWithMagic(data)
    THEN IF Len(data) < HeaderLen
         THEN [messages |-> msgs, rs |-> ErrHeader]
         ELSE LET id == HeaderId(data)
                  seq == HeaderSeq(data)
                  total_seq == HeaderTotal(data)
                  rest == PayloadOf(data)
              IN  IF total_seq = 0 THEN [messages |-> msgs, rs |-> ErrTotal]
                  ELSE LET m == try_merge(EntryOrInsert(msgs, id, total_seq, now),
                                          seq, rest)
                       IN  [messages |-> AfterMerge(msgs, id, m), rs |-> m.rs]
    ELSE [messages |-> msgs, rs |-> data_to_str(data)]

\* GELFState::on_data: the index after the call and the value returned.
on_data(msgs, data, now) ==
    IF StartsWithMagic(data)
    THEN IF Len(data) < HeaderLen
         THEN [messages |-> msgs, rs |-> ErrHeader]
         ELSE LET id == HeaderId(data)
                  seq == HeaderSeq(data)
                  total_seq == HeaderTotal(data)
                  rest == PayloadOf(data)
              IN  IF total_seq = 0 THEN [messages |-> msgs, rs |-> ErrTotal]
                  ELSE IF total_seq = 1
                       THEN [messages |-> msgs, rs |-> data_to_str(rest)]
                  ELSE LET m == try_merge(EntryOrInsert(msgs, id, total_seq, now),
                                          seq, rest)
                       IN  [messages |-> AfterMerge(msgs, id, m), rs |-> m.rs]
    ELSE [messages |-> msgs, rs |-> data_to_str(data)]

\* Mutant: the threshold compared with "<=".
Retained_Inclusive(item, now) ==
    now - item.first_arrived <= MAX_CHUNKED_MESSAGE_DURATION

\* Mutant: the subtraction written the other way round.
Retained_Reversed(item, now) ==
    item.first_arrived - now < MAX_CHUNKED_MESSAGE_DURATION

\* The retain predicate of clean_up.
Retained(item, now) == now - item.first_arrived < MAX_CHUNKED_MESSAGE_DURATION

\* GELFState::clean_up
clean_up(msgs, now) ==
    LET keep == { k \in DOMAIN msgs : Retained(msgs[k], now) }
    IN  [k \in keep |-> msgs[k]]

\* ----------------------------------------------------------------- history
\* A buffer that on_data routes to the merger: chunked, a whole header, and
\* total_chunks of 2 or more.
IsFragment(data) ==
    /\ StartsWithMagic(data)
    /\ Len(data) >= HeaderLen
    /\ HeaderTotal(data) >= 2

\* A call that ends the round of its identifier: it returned a text or a
\* decode error.
EndsRound(data, res) ==
    IsFragment(data) /\ (res.kind = "Some" \/ res = ErrDecode)

\* The history after on_data(data) returned res and left the index newMsgs.
RecordOnData(data, res, newMsgs) ==
    IF ~IsFragment(data)
    THEN UNCHANGED hist
    ELSE LET id == HeaderId(data)
             seq == HeaderSeq(data)
             ends == EndsRound(data, res)
         IN  /\ got' = [got EXCEPT ![id] =
                    IF ends THEN NoneGot
                    ELSE IF @[seq] = Absent THEN [@ EXCEPT ![seq] = PayloadOf(data)]
                    ELSE @]
             /\ decl' = [decl EXCEPT ![id] =
                    IF ends THEN 0 ELSE IF @ = 0 THEN HeaderTotal(data) ELSE @]
             /\ born' = [born EXCEPT ![id] =
                    IF ends THEN 0 ELSE IF decl[id] = 0 THEN clock ELSE @]
             /\ created' = [created EXCEPT ![id] =
                    IF id \notin DOMAIN newMsgs THEN NotCreated
                    ELSE IF id \in DOMAIN messages THEN @
                    ELSE [at |-> clock, total |-> HeaderTotal(data)]]

\* The history after clean_up left the index newMsgs.
RecordCleanUp(newMsgs) ==
    LET gone == (DOMAIN messages) \ (DOMAIN newMsgs)
    IN  /\ got' = [id \in MessageIDs |-> IF id \in gone THEN NoneGot ELSE got[id]]
        /\ decl' = [id \in MessageIDs |-> IF id \in gone THEN 0 ELSE decl[id]]
        /\ born' = [id \in MessageIDs |-> IF id \in gone THEN 0 ELSE born[id]]
        /\ created' = [id \in MessageIDs |-> IF id \in gone THEN NotCreated ELSE created[id]]

\* ----------------------------------------------------------------- actions
\* No call is in progress: the caller has taken the last call's result.
Idle == call = NoCall

\* The caller (one line of control) calls on_data with a buffer it received.
OnData(data) ==
    /\ Idle
    /\ \E r \in { on_data(messages, data, clock) } :
        /\ messages' = r.messages
        /\ rs' = r.rs
        /\ call' = OnDataCall(data)
        /\ RecordOnData(data, r.rs, r.messages)
        /\ UNCHANGED clock

\* The caller calls clean_up with an instant not before the present one.
CleanUp(now) ==
    /\ Idle
    /\ \E m \in { clean_up(messages, now) } :
        /\ messages' = m
        /\ call' = CleanUpCall(now, (DOMAIN messages) \ (DOMAIN m))
        /\ RecordCleanUp(m)
        /\ UNCHANGED <<clock, rs>>

\* The call returns: the caller takes the result and goes on.
Return ==
    /\ ~Idle
    /\ call' = NoCall
    /\ rs' = OkNone
    /\ UNCHANGED <<messages, clock, hist>>

\* Time passes between calls.
Tick ==
    /\ Idle
    /\ clock < MaxClock
    /\ clock' = clock + 1
    /\ UNCHANGED <<messages, rs, call, hist>>

\* ---------------------------------------------------------- specifications
\* Every kind of call, all within one second (the clock stands still; clean_up
\* is still called with instants up to 121 seconds ahead).
Deliver(data) == OnData(data) /\ UNCHANGED <<sent, ingest>>
Evict(now) == CleanUp(now) /\ UNCHANGED <<sent, ingest>>
Returned == Return /\ UNCHANGED <<sent, ingest>>
Elapse == Tick /\ UNCHANGED <<sent, ingest>>

Next ==
    \/ \E data \in Buffers : Deliver(data)
    \/ \E o \in CleanUpOffsets : Evict(clock + o)
    \/ Returned

Spec == Init /\ [][Next]_vars

\* Calls spread over time: the clock advances between calls, every fragment of
\* IdA carries the letter of its sequence number, and IdB's two-fragment
\* message is U+00E9 or the undecodable 0xC3 0xC3.
TimedBuffers ==
    { new_chunk_message(IdA, s, t, <<LetterA + s>>) : s \in SeqValues, t \in MergeTotals }
        \cup OtherBuffers \cup { new_chunk_message(IdB, 1, 2, <<Utf8Lead>>) }

TimedNext ==
    \/ \E data \in TimedBuffers : Deliver(data)
    \/ \E o \in CleanUpOffsets : Evict(clock + o)
    \/ Returned
    \/ Elapse

TimedSpec == Init /\ [][TimedNext]_vars

\* One message: the fragments 0..N-1 of a message of N fragments, each
\* delivered once with total_chunks = N, in any order, over time, with at most
\* one clean_up in between.
FragmentSent(seq, total, data, at) ==
    [op |-> "on_data", seq |-> seq, total |-> total, data |-> data, at |-> at]
CleanUpSent(now) ==
    [op |-> "clean_up", seq |-> 0, total |-> 0, data |-> <<>>, at |-> now]
SentSeqs == { sent[i].seq : i \in { j \in DOMAIN sent : sent[j].op = "on_data" } }
SentTotals == { sent[i].total : i \in { j \in DOMAIN sent : sent[j].op = "on_data" } }
CleanUps == { j \in DOMAIN sent : sent[j].op = "clean_up" }

DeliverOnce(seq, total, data) ==
    /\ seq < total
    /\ seq \notin SentSeqs
    /\ SentTotals \subseteq {total}
    /\ OnData(new_chunk_message(IdA, seq, total, data))
    /\ sent' = Append(sent, FragmentSent(seq, total, data, clock))
    /\ UNCHANGED ingest

EvictOnce(now) ==
    /\ CleanUps = {}
    /\ SentSeqs # {}
    /\ CleanUp(now)
    /\ sent' = Append(sent, CleanUpSent(now))
    /\ UNCHANGED ingest

MessageNext ==
    \/ \E seq \in SeqValues, total \in MergeTotals : \E data \in Payloads(seq) :
          DeliverOnce(seq, total, data)
    \/ \E o \in CleanUpOffsets : EvictOnce(clock + o)
    \/ Returned
    \/ Elapse

MessageSpec == Init /\ [][MessageNext]_vars

\* Fragments with sequence numbers and totals at both ends of the u8 range,
\* all of one message identifier.
U8Max == U8Modulus - 1
ByteSeqs == (0..(MaxSeq - 1)) \cup ((U8Max - MaxSeq + 1)..U8Max)
ByteTotals == { 2, U8Max }
ByteBuffers ==
    { new_chunk_message(IdA, s, t, <<LetterA>>) : s \in ByteSeqs, t \in ByteTotals }

\* on_data called with such a fragment (the history of the rounds, which is
\* kept for the sequence numbers of SeqValues, is left alone).
DeliverByte(data) ==
    /\ Idle
    /\ \E r \in { on_data(messages, data, clock) } :
        /\ messages' = r.messages
        /\ rs' = r.rs
        /\ call' = OnDataCall(data)
    /\ UNCHANGED <<clock, hist, sent, ingest>>

ByteNext ==
    \/ \E data \in ByteBuffers : DeliverByte(data)
    \/ \E o \in CleanUpOffsets : Evict(clock + o)
    \/ Returned

ByteSpec == Init /\ [][ByteNext]_vars

\* The values of the u8 computations of are_chunks_continuous, which returns
\* at the first gap: chunk.start - v.end for the pairs up to that one.
ContinuityDiffs(chunks) ==
    { chunks[i + 1].start - chunks[i].end :
        i \in { j \in 1..(Len(chunks) - 1) :
                  \A h \in 1..(j - 1) : ~(U8(chunks[h + 1].start - chunks[h].end) > 1) } }

\* The values, before they are cut to 8 bits, of the u8 computations that
\* try_merge(seq, ..) makes on the state self: last_chunk.end + 1 when the
\* insertion point is not the head, total_seq - 1 in the completion test, and
\* the differences of are_chunks_continuous when the test gets that far.
ByteComputations(self, seq) ==
    LET chunks == self.sorted_chunks
        r == binary_search_by(chunks, seq, 0, Len(chunks))
        merged == MergeAt(chunks, r.index, seq, <<>>)
    IN  IF r.found THEN {}
        ELSE (IF r.index = 0 THEN {} ELSE { chunks[r.index].end + 1 })
             \cup { self.total_seq - 1 }
             \cup (IF /\ merged[Len(merged)].end = U8(self.total_seq - 1)
                      /\ merged[1].start = 0
                   THEN ContinuityDiffs(merged) ELSE {})

\* ------------------------------------------------------------- main.rs
\* The lines a client sends, each up to its 0 delimiter: a JSON document, a
\* text that is no JSON, and bytes that are no UTF-8.
JsonLine == <<123, 125>>
PlainLine == <<120>>
BrokenLine == <<Utf8Lead>>
Lines == { JsonLine, PlainLine, BrokenLine }
FilterFormats == { "Json", "Any" }

\* FilterFormat::accepts
accepts(format, entry) ==
    IF format = "Json" THEN entry = JsonLine ELSE TRUE

\* The match on std::str::from_utf8(buf): the line goes on to be inserted.
Accepted(format, line) == Utf8Valid(line) /\ accepts(format, line)

\* The batch test of do_process_log.
BatchFull(n, batch) == n >= batch

gelf == <<messages, clock, rs, call, got, decl, born, created, sent>>

\* pool.prepare(&sql) in serve_client succeeds, and do_process_log starts.
Prepared ==
    /\ pc = "prepare"
    /\ pc' = "read"
    /\ UNCHANGED <<db_batch, filter, tx, num_inserts, result, pending, inserted, covered, gelf>>

\* pool.prepare(&sql) fails: serve_client returns the error through `?`.
PrepareFailed ==
    /\ pc = "prepare"
    /\ pc' = "returned"
    /\ result' = "err"
    /\ UNCHANGED <<db_batch, filter, tx, num_inserts, pending, inserted, covered, gelf>>

\* read_until returns a line: it is skipped (continue) or goes on to the insert.
ReadLine(line) ==
    /\ pc = "read"
    /\ IF Accepted(filter, line)
       THEN inserted < MaxInserts /\ pc' = "begin"
       ELSE pc' = pc
    /\ UNCHANGED <<db_batch, filter, tx, num_inserts, result, pending, inserted, covered, gelf>>

\* The read is cancelled by the shutdown or the stream ends: return Ok(()).
ReadEnd ==
    /\ pc = "read"
    /\ result' = "ok"
    /\ pc' = "exit"
    /\ UNCHANGED <<db_batch, filter, tx, num_inserts, pending, inserted, covered, gelf>>

\* The read fails: return Err.
ReadError ==
    /\ pc = "read"
    /\ result' = "err"
    /\ pc' = "exit"
    /\ UNCHANGED <<db_batch, filter, tx, num_inserts, pending, inserted, covered, gelf>>

\* tx.as_mut() is Some: the open transaction is used.
UseTransaction ==
    /\ pc = "begin"
    /\ tx = "open"
    /\ pc' = "execute"
    /\ UNCHANGED <<db_batch, filter, tx, num_inserts, result, pending, inserted, covered, gelf>>

\* tx.as_mut() is None and pool.begin() succeeds.
BeginTransaction ==
    /\ pc = "begin"
    /\ tx = "none"
    /\ tx' = "open"
    /\ pc' = "execute"
    /\ UNCHANGED <<db_batch, filter, num_inserts, result, pending, inserted, covered, gelf>>

\* tx.as_mut() is None and pool.begin() fails: return Err.
BeginFailed ==
    /\ pc = "begin"
    /\ tx = "none"
    /\ result' = "err"
    /\ pc' = "exit"
    /\ UNCHANGED <<db_batch, filter, tx, num_inserts, pending, inserted, covered, gelf>>

\* The statement is executed in the transaction; then the batch test: either
\* the transaction is taken out of tx to be committed, or the loop goes on.
Execute ==
    /\ pc = "execute"
    /\ pending' = pending + 1
    /\ inserted' = inserted + 1
    /\ IF BatchFull(num_inserts, db_batch)
       THEN tx' = "none" /\ pc' = "commit"
       ELSE tx' = tx /\ pc' = "read"
    /\ UNCHANGED <<db_batch, filter, num_inserts, result, covered, gelf>>

\* Executing the statement fails: return Err, the transaction still in tx.
ExecuteFailed ==
    /\ pc = "execute"
    /\ result' = "err"
    /\ pc' = "exit"
    /\ UNCHANGED <<db_batch, filter, tx, num_inserts, pending, inserted, covered, gelf>>

\* The commit of the taken transaction succeeds: the counter is reset.
Commit ==
    /\ pc = "commit"
    /\ covered' = covered + pending
    /\ pending' = 0
    /\ num_inserts' = 0
    /\ pc' = "read"
    /\ UNCHANGED <<db_batch, filter, tx, result, inserted, gelf>>

\* The commit of the taken transaction fails: return Err.
CommitFailed ==
    /\ pc = "commit"
    /\ covered' = covered + pending
    /\ pending' = 0
    /\ result' = "err"
    /\ pc' = "exit"
    /\ UNCHANGED <<db_batch, filter, tx, num_inserts, inserted, gelf>>

\* Mutant: serve_client passes a failure of do_process_log on before the
\* commit.
CommitsOnExit_OnlyOk(res, t) == t = "open" /\ res = "ok"

\* serve_client after do_process_log: is there a transaction to commit?
CommitsOnExit(res, t) == t = "open"

\* serve_client commits the transaction left in tx (the outcome of the commit
\* is dropped) and returns rs.
ExitCommit ==
    /\ pc = "exit"
    /\ CommitsOnExit(result, tx)
    /\ tx' = "none"
    /\ covered' = covered + pending
    /\ pending' = 0
    /\ pc' = "returned"
    /\ UNCHANGED <<db_batch, filter, num_inserts, result, inserted, gelf>>

\* serve_client returns rs without a commit.
ExitPlain ==
    /\ pc = "exit"
    /\ ~CommitsOnExit(result, tx)
    /\ pc' = "returned"
    /\ UNCHANGED <<db_batch, filter, tx, num_inserts, result, pending, inserted, covered, gelf>>

\* One client, for every batch size and filter.
ServeNext ==
    \/ Prepared
    \/ PrepareFailed
    \/ \E line \in Lines : ReadLine(line)
    \/ ReadEnd
    \/ ReadError
    \/ UseTransaction
    \/ BeginTransaction
    \/ BeginFailed
    \/ Execute
    \/ ExecuteFailed
    \/ Commit
    \/ CommitFailed
    \/ ExitCommit
    \/ ExitPlain

\* serve_client as it is entered, for every batch size and filter.
ServeStart ==
    /\ GelfInit
    /\ \E batch \in 0..MaxBatch, format \in FilterFormats : ServeInit(batch, format)

ServeSpec == ServeStart /\ [][ServeNext]_vars

\* ------------------------------------------------------------------ claims
\* The fragments MessageSpec has delivered, and their payloads concatenated in
\* ascending sequence order.
SentFragments == { j \in DOMAIN sent : sent[j].op = "on_data" }
RECURSIVE SentTextFrom(_, _)
SentTextFrom(seq, total) ==
    IF seq >= total THEN <<>>
    ELSE LET js == { j \in SentFragments : sent[j].seq = seq }
         IN  (IF js = {} THEN <<>> ELSE sent[CHOOSE j \in js : TRUE].data)
                 \o SentTextFrom(seq + 1, total)

\* C1 (order independence): the N >= 2 fragments of a message, sequence numbers
\* 0..N-1 and total_chunks = N, are delivered to a fresh GELFState one per call
\* in any order with no clean_up in between. Every call before the N-th returns
\* Ok(None); the N-th, which delivers the last missing sequence number, returns
\* the payloads concatenated in ascending sequence order as Ok(Some(text)) when
\* the message is text (valid UTF-8), and the decode error otherwise.
C1_OrderIndependence ==
    (~Idle /\ sent # <<>> /\ CleanUps = {}) =>
        LET total == sent[1].total
            text == SentTextFrom(0, total)
        IN  IF Len(sent) < total THEN rs = OkNone
            ELSE /\ Utf8Valid(text) => rs = OkSome(text)
                 /\ ~Utf8Valid(text) => rs = ErrDecode

\* "ABC" in three fragments delivered in the order 2, 1, 0: the third call
\* returns the text.
C1_Witness ==
    /\ ~Idle /\ CleanUps = {} /\ Len(sent) = 3
    /\ sent[1].seq = 2 /\ sent[2].seq = 1 /\ sent[3].seq = 0
    /\ rs = OkSome(<<LetterA, LetterA + 1, LetterA + 2>>)


\* What the history says about a call on_data(d) for a fragment d, read in the
\* state before the call: the total the identifier's state was (or is being)
\* created with, and the round's first payloads with d's added.
StateTotal(d) ==
    IF HeaderId(d) \in DOMAIN messages THEN created[HeaderId(d)].total
    ELSE HeaderTotal(d)
GotWith(d) ==
    LET g == got[HeaderId(d)]
    IN  IF g[HeaderSeq(d)] = Absent THEN [g EXCEPT ![HeaderSeq(d)] = PayloadOf(d)] ELSE g
HasGap(g, total) == \E s \in 0..(total - 1) : s \notin Received(g)
RECURSIVE GotTextFrom(_, _, _)
GotTextFrom(g, seq, total) ==
    IF seq >= total THEN <<>>
    ELSE (IF seq \in Received(g) THEN g[seq] ELSE <<>>) \o GotTextFrom(g, seq + 1, total)
\* A run of the identifier's state covers the sequence number.
Covered(id, seq) ==
    /\ id \in DOMAIN messages
    /\ \E i \in DOMAIN messages[id].sorted_chunks :
          /\ messages[id].sorted_chunks[i].start <= seq
          /\ seq <= messages[id].sorted_chunks[i].end
\* The step is a call of on_data with a fragment routed to the merger.
FragmentStep == Idle /\ call'.op = "on_data" /\ IsFragment(call'.data)

\* C2 (gap persistence): for an identifier whose state was created with
\* total_chunks = N, every on_data call that delivers a fragment to the merger
\* for that identifier (a whole header, total_chunks >= 2) while some sequence
\* number in [0, N) is still undelivered after it returns Ok(None) and keeps
\* the state, whatever was delivered before and in whatever order.
C2_GapPersistence ==
    [][FragmentStep =>
          (HasGap(GotWith(call'.data), StateTotal(call'.data)) =>
              /\ rs' = OkNone
              /\ HeaderId(call'.data) \in DOMAIN messages')]_vars

\* Fragment 2 and then fragment 0 of a three-fragment message: 1 is missing,
\* the state holds two runs and the call returned Ok(None).
C2_Witness ==
    /\ ~Idle /\ call.op = "on_data" /\ IsFragment(call.data)
    /\ HeaderId(call.data) = IdA /\ HeaderSeq(call.data) = 0
    /\ created[IdA].total = 3
    /\ Received(got[IdA]) = {0, 2}
    /\ Len(messages[IdA].sorted_chunks) = 2
    /\ rs = OkNone

\* C3 (duplicate idempotence): a fragment whose sequence number is already
\* covered by a run of the in-flight message (it was delivered before in this
\* round) returns Ok(None) and leaves the whole index unchanged; and the text a
\* completing call returns is the concatenation, in sequence order, of the
\* payload first delivered for each sequence number.
C3_DuplicateIdempotence ==
    [][FragmentStep =>
          LET d == call'.data
          IN  /\ (got[HeaderId(d)][HeaderSeq(d)] # Absent \/ Covered(HeaderId(d), HeaderSeq(d)))
                    => (rs' = OkNone /\ messages' = messages)
              /\ rs'.kind = "Some"
                    => rs'.text = GotTextFrom(GotWith(d), 0, StateTotal(d))]_vars

\* A fragment re-delivered with another payload than the first time: Ok(None),
\* and the first payload is the one kept.
C3_Witness ==
    /\ ~Idle /\ call.op = "on_data" /\ IsFragment(call.data)
    /\ HeaderId(call.data) = IdA
    /\ got[IdA][HeaderSeq(call.data)] # Absent
    /\ got[IdA][HeaderSeq(call.data)] # PayloadOf(call.data)
    /\ Covered(IdA, HeaderSeq(call.data))
    /\ rs = OkNone


\* C5 (decode failure after a multi-fragment completion discards the state):
\* when the call that completes a multi-fragment message returns the decode
\* error, the index holds no entry for that identifier after the call.
C5_DecodeFailureDiscards ==
    (~Idle /\ call.op = "on_data" /\ IsFragment(call.data) /\ rs = ErrDecode)
        => HeaderId(call.data) \notin DOMAIN messages

\* C6 (identifier reuse is fresh): whenever fragments of a message are in
\* flight for an identifier, after whatever earlier message used it (completed
\* with or without a decode error, or evicted), the identifier's state carries
\* that message's own first-seen total_chunks and arrival time.
C6_ReuseIsFresh ==
    \A id \in MessageIDs :
        (id \in DOMAIN messages /\ decl[id] # 0) =>
            /\ messages[id].total_seq = decl[id]
            /\ messages[id].first_arrived = born[id]

\* The step is a call of on_data with a buffer that has a whole chunked header.
ChunkedStep ==
    /\ Idle /\ call'.op = "on_data"
    /\ StartsWithMagic(call'.data) /\ Len(call'.data) >= HeaderLen

\* C7 (malformed rejection): a buffer that starts with the magic marker and is
\* shorter than 12 bytes returns the malformed-header error, a chunked buffer
\* with total_chunks = 0 returns the invalid-count error, and in both cases the
\* index after the call is the index before it.
C7_MalformedRejection ==
    [][/\ (Idle /\ call'.op = "on_data"
              /\ StartsWithMagic(call'.data) /\ Len(call'.data) < HeaderLen)
          => (rs' = ErrHeader /\ messages' = messages)
       /\ (ChunkedStep /\ HeaderTotal(call'.data) = 0)
          => (rs' = ErrTotal /\ messages' = messages)]_vars

\* A total_chunks = 0 buffer for IdA rejected while the index is empty of IdA
\* and holds a partial message of IdB.
C7_Witness ==
    /\ ~Idle /\ call.op = "on_data" /\ call.data \in ZeroTotalBuffers
    /\ rs = ErrTotal
    /\ DOMAIN messages = {IdB}
    /\ messages[IdB].sorted_chunks # <<>>

\* C8 (single-fragment chunked message): a chunked fragment with
\* total_chunks = 1 is decoded and returned by the same call (Ok(Some(payload))
\* when the payload is valid UTF-8, the decode error otherwise), and the index
\* after the call is the index before it: no entry is created, and an entry
\* of the same or another identifier is left as it was.
C8_SingleFragment ==
    [][(ChunkedStep /\ HeaderTotal(call'.data) = 1) =>
          /\ messages' = messages
          /\ Utf8Valid(PayloadOf(call'.data)) => rs' = OkSome(PayloadOf(call'.data))
          /\ ~Utf8Valid(PayloadOf(call'.data)) => rs' = ErrDecode]_vars

\* "A" returned from a single-fragment message of IdA while a partial
\* multi-fragment message of IdA is in the index.
C8_Witness ==
    /\ ~Idle /\ call.op = "on_data"
    /\ call.data = new_chunk_message(IdA, 0, 1, <<LetterA>>)
    /\ rs = OkSome(<<LetterA>>)
    /\ IdA \in DOMAIN messages
    /\ messages[IdA].sorted_chunks # <<>>


\* C10 (error set): on_data returns an error only for a magic-marked buffer
\* shorter than 12 bytes, for total_chunks = 0, or for bytes that are not valid
\* UTF-8 at final assembly: an unchunked buffer, a single-fragment message, or
\* the fragment that delivers the last missing sequence number of its
\* identifier's state. So a fragment that leaves a gap, arrives out of order
\* or is a duplicate never yields an error, whatever its payload.
C10_ErrorSet ==
    [][(Idle /\ call'.op = "on_data" /\ rs'.kind = "Err") =>
          LET d == call'.data
          IN  \/ StartsWithMagic(d) /\ Len(d) < HeaderLen /\ rs' = ErrHeader
              \/ ChunkedStep /\ HeaderTotal(d) = 0 /\ rs' = ErrTotal
              \/ ~StartsWithMagic(d) /\ ~Utf8Valid(d) /\ rs' = ErrDecode
              \/ ChunkedStep /\ HeaderTotal(d) = 1
                    /\ ~Utf8Valid(PayloadOf(d)) /\ rs' = ErrDecode
              \/ FragmentStep
                    /\ got[HeaderId(d)][HeaderSeq(d)] = Absent
                    /\ ~HasGap(GotWith(d), StateTotal(d))
                    /\ ~Utf8Valid(GotTextFrom(GotWith(d), 0, StateTotal(d)))
                    /\ rs' = ErrDecode]_vars

\* The decode error from the call that completes a three-fragment message.
C10_Witness ==
    /\ ~Idle /\ call.op = "on_data" /\ IsFragment(call.data)
    /\ HeaderId(call.data) = IdA
    /\ created[IdA].total = 3
    /\ rs = ErrDecode

\* The step is a call of clean_up.
CleanUpStep == Idle /\ call'.op = "clean_up"

\* C9 as claimed (eviction threshold): clean_up(now) removes every state whose
\* first fragment arrived more than 120 seconds before now and retains, as it
\* is, every state not older than 120 seconds, one aged exactly 120 seconds
\* included; the age runs from the fragment that created the state.
C9_EvictionThreshold ==
    [][CleanUpStep =>
          \A id \in DOMAIN messages :
              IF call'.now - created[id].at > MAX_CHUNKED_MESSAGE_DURATION
              THEN id \notin DOMAIN messages'
              ELSE id \in DOMAIN messages' /\ messages'[id] = messages[id]]_vars

\* C9 as amended: clean_up(now) removes every state whose first fragment
\* arrived 120 seconds or more before now (a state aged exactly 120 seconds is
\* removed) and retains, as it is, every state younger than 120 seconds; it
\* adds no state; the age runs from the fragment that created the state,
\* whatever fragments came later.
C9_EvictionAtThreshold ==
    [][CleanUpStep =>
          /\ DOMAIN messages' \subseteq DOMAIN messages
          /\ \A id \in DOMAIN messages :
              IF call'.now - created[id].at >= MAX_CHUNKED_MESSAGE_DURATION
              THEN id \notin DOMAIN messages'
              ELSE id \in DOMAIN messages' /\ messages'[id] = messages[id]]_vars

\* clean_up at second 120: the state created at second 0 is removed, the one
\* created at second 1 is retained.
C9_Witness ==
    /\ ~Idle /\ call.op = "clean_up" /\ call.now = MAX_CHUNKED_MESSAGE_DURATION
    /\ call.removed = {IdB}
    /\ IdA \in DOMAIN messages
    /\ created[IdA].at = 1
    /\ Len(messages[IdA].sorted_chunks) = 2

\* The payloads of the fragments MessageSpec delivered after call number c,
\* concatenated in ascending sequence order.
RECURSIVE LaterTextFrom(_, _, _)
LaterTextFrom(c, seq, total) ==
    IF seq >= total THEN <<>>
    ELSE LET js == { j \in SentFragments : j > c /\ sent[j].seq = seq }
         IN  (IF js = {} THEN <<>> ELSE sent[CHOOSE j \in js : TRUE].data)
                 \o LaterTextFrom(c, seq + 1, total)

\* C4 (timeout eviction): a message has received some but not all of its
\* fragments and clean_up(now) is called with now more than 120 seconds after
\* the first fragment's arrival. Then the state is removed; the next fragment
\* of the identifier creates a new state that holds that fragment alone, with
\* its own arrival time; and while the fragments that were missing are
\* delivered the state holds just those and every call returns Ok(None).
C4_TimeoutEviction ==
    CleanUps # {} =>
        LET c == CHOOSE j \in CleanUps : TRUE
            total == sent[1].total
            before == { j \in SentFragments : j < c }
            later == { j \in SentFragments : j > c }
        IN  (sent[c].at - sent[1].at > MAX_CHUNKED_MESSAGE_DURATION
                /\ Cardinality(before) < total) =>
              /\ (IdA \notin DOMAIN messages) <=> (later = {})
              /\ later # {} =>
                  /\ messages[IdA].first_arrived = sent[c + 1].at
                  /\ messages[IdA].total_seq = total
                  /\ \A s \in SeqValues :
                        Covered(IdA, s) <=> (\E j \in later : sent[j].seq = s)
                  /\ ConcatChunks(messages[IdA].sorted_chunks) = LaterTextFrom(c, 0, total)
                  /\ Cardinality(later) = 1 =>
                        messages[IdA].sorted_chunks
                            = <<MergeChunk(sent[c + 1].seq, sent[c + 1].data)>>
                  /\ ~Idle => rs = OkNone

\* Fragment 0 of a two-fragment message, clean_up more than 120 seconds later,
\* then fragment 1: every fragment has been delivered and the call returned
\* Ok(None).
C4_Witness ==
    /\ ~Idle /\ Len(sent) = 3
    /\ sent[1].total = 2 /\ sent[1].seq = 0
    /\ sent[2].op = "clean_up"
    /\ sent[2].at - sent[1].at > MAX_CHUNKED_MESSAGE_DURATION
    /\ sent[3].seq = 1
    /\ rs = OkNone
    /\ IdA \in DOMAIN messages


\* C11 (unchunked round trip): on_data on a buffer that does not begin with
\* the two magic bytes returns, in that call, Ok(Some(text)) with exactly the
\* buffer's bytes, and leaves the index as it was. The text is the buffer
\* decoded as UTF-8; for a buffer that is not valid UTF-8 the call returns the
\* decode error (C10), the index unchanged as well.
C11_UnchunkedRoundTrip ==
    [][(Idle /\ call'.op = "on_data" /\ ~StartsWithMagic(call'.data)) =>
          /\ messages' = messages
          /\ Utf8Valid(call'.data) => rs' = OkSome(call'.data)
          /\ ~Utf8Valid(call'.data) => rs' = ErrDecode]_vars

\* The first magic byte alone, returned as text while a message is in flight.
C11_Witness ==
    /\ ~Idle /\ call.op = "on_data"
    /\ call.data = <<CHUNKED_MAGIC_BYTES[1]>>
    /\ rs = OkSome(call.data)
    /\ IdA \in DOMAIN messages


\* C12 (batch commit): with a batch size N = db_batch >= 1, the transaction is
\* committed after every N inserts, so the open transaction never holds more
\* than N uncommitted inserts.
C12_BatchCommit ==
    db_batch >= 1 => pending <= db_batch

\* C20 (commit on exit): when serve_client has returned - after the end of the
\* stream or the shutdown, or after an error of do_process_log - no
\* transaction is open and every insert that was executed has been covered by
\* a commit call; and the step by which serve_client returns from
\* do_process_log with a transaction in tx is a commit of it.
C20_CommitOnExit ==
    /\ pc = "returned" => (tx = "none" /\ pending = 0 /\ covered = inserted)
    /\ (pc = "exit" /\ tx = "open") => ENABLED ExitCommit

\* serve_client has returned the error of a failed insert, after an earlier
\* insert in the same transaction.
C20_Witness ==
    /\ pc = "returned"
    /\ result = "err"
    /\ inserted >= 1
    /\ covered = inserted
    /\ tx = "none"


\* The runs of an identifier's state: none when the index has no entry.
RunsOf(msgs, id) == IF id \in DOMAIN msgs THEN msgs[id].sorted_chunks ELSE <<>>

\* The step merges a fragment that no run of its identifier's state covers,
\* and the message is still incomplete after it.
NewFragmentStep ==
    /\ FragmentStep
    /\ ~Covered(HeaderId(call'.data), HeaderSeq(call'.data))
    /\ HeaderId(call'.data) \in DOMAIN messages'
    /\ rs' = OkNone

\* C13 as claimed (runs are coalesced): in every state of the index, any two
\* consecutive runs a then b satisfy b.start > a.end + 1; no state holds two
\* adjacent runs.
C13_RunsCoalesced ==
    \A id \in DOMAIN messages :
        \A i \in 1..(Len(messages[id].sorted_chunks) - 1) :
            messages[id].sorted_chunks[i + 1].start
                > messages[id].sorted_chunks[i].end + 1

\* C13 as amended: a fragment is coalesced with the run before it only. A
\* fragment that no run covers extends the run that ends at seq - 1 when there
\* is one (its end becomes seq, the payload is appended, the number of runs
\* stays) and otherwise becomes a run [seq, seq] of its own, also when a run
\* starts at seq + 1; every other run is left as it is. So consecutive runs a
\* then b satisfy b.start >= a.end + 1, and two runs become adjacent only
\* when the fragment seq arrives while a run starts at seq + 1.
C13_CoalescedBackwardOnly ==
    [][NewFragmentStep =>
          LET id == HeaderId(call'.data)
              seq == HeaderSeq(call'.data)
              pre == RunsOf(messages, id)
              post == RunsOf(messages', id)
              before == { i \in DOMAIN pre : pre[i].end + 1 = seq }
          IN  /\ \A i \in 1..(Len(post) - 1) : post[i + 1].start >= post[i].end + 1
              /\ IF before # {}
                 THEN \E i \in before :
                        post = [pre EXCEPT ![i] =
                                   [start |-> pre[i].start, end |-> seq,
                                    data |-> pre[i].data \o PayloadOf(call'.data)]]
                 ELSE \E j \in DOMAIN post :
                        /\ post[j] = MergeChunk(seq, PayloadOf(call'.data))
                        /\ pre = SubSeq(post, 1, j - 1) \o SubSeq(post, j + 1, Len(post))
              /\ \A i \in 1..(Len(post) - 1) :
                    (post[i + 1].start = post[i].end + 1) =>
                        \/ post[i].end = seq
                        \/ \E k \in 1..(Len(pre) - 1) :
                              /\ pre[k].end = post[i].end
                              /\ pre[k + 1].start = post[i + 1].start]_vars

\* Fragment 1 and then fragment 0 of a three-fragment message: the runs [0,0]
\* and [1,1] are adjacent and stay apart.
C13_Witness ==
    /\ ~Idle /\ call.op = "on_data" /\ IsFragment(call.data)
    /\ IdA \in DOMAIN messages
    /\ HeaderId(call.data) = IdA /\ HeaderSeq(call.data) = 0
    /\ messages[IdA].total_seq = 3
    /\ Len(messages[IdA].sorted_chunks) = 2
    /\ messages[IdA].sorted_chunks[1].end = 0
    /\ messages[IdA].sorted_chunks[2].start = 1

\* C14 (runs are sorted and disjoint): in every state of the index each run
\* has start <= end, and consecutive runs a then b have a.end < b.start,
\* after any calls: out of order, duplicate, out of range.
C14_SortedDisjoint ==
    \A id \in DOMAIN messages :
        LET chunks == messages[id].sorted_chunks
        IN  /\ \A i \in DOMAIN chunks : chunks[i].start <= chunks[i].end
            /\ \A i \in 1..(Len(chunks) - 1) : chunks[i].end < chunks[i + 1].start

\* A state of total 2 that holds the runs [0,0] and [2,2], the second out of
\* range, after the duplicate of one of them was delivered.
C14_Witness ==
    /\ ~Idle /\ call.op = "on_data" /\ IsFragment(call.data)
    /\ HeaderId(call.data) = IdA
    /\ IdA \in DOMAIN messages
    /\ messages[IdA].total_seq = 2
    /\ Len(messages[IdA].sorted_chunks) = 2
    /\ messages[IdA].sorted_chunks[1].end = 0
    /\ messages[IdA].sorted_chunks[2].start = 2
    /\ got[IdA][HeaderSeq(call.data)] # PayloadOf(call.data)

\* C15 (sequence numbers stay in range): in every state of the index, every
\* sequence number that a run covers lies in [0, total_chunks) of its state.
C15_SeqInRange ==
    \A id \in DOMAIN messages :
        \A i \in DOMAIN messages[id].sorted_chunks :
            messages[id].sorted_chunks[i].end < messages[id].total_seq


\* C16 (the first-seen total is trusted): the total and the arrival instant
\* of a state are those of the fragment that created it, and stay so. A later
\* fragment for the identifier that declares another total_chunks >= 2 is not
\* rejected and its total is not used: the call does what it would do had the
\* fragment declared the state's total, so completion is decided against the
\* first-seen total.
C16_FirstSeenTotal ==
    [][FragmentStep =>
          LET d == call'.data
              id == HeaderId(d)
          IN  /\ id \in DOMAIN messages' =>
                    /\ messages'[id].total_seq = created'[id].total
                    /\ messages'[id].first_arrived = created'[id].at
              /\ id \in DOMAIN messages =>
                    /\ created'[id] \in {created[id], NotCreated}
                    /\ rs' \notin {ErrHeader, ErrTotal}
                    /\ [messages |-> messages', rs |-> rs']
                          = on_data(messages,
                                    new_chunk_message(id, HeaderSeq(d),
                                        messages[id].total_seq, PayloadOf(d)),
                                    clock)
                    /\ rs' # OkNone =>
                          ~HasGap(GotWith(d), messages[id].total_seq)]_vars

\* A fragment with sequence number 1 that declares three fragments completes,
\* a second later, the message whose first fragment declared two.
C16_Witness ==
    /\ ~Idle /\ call.op = "on_data" /\ IsFragment(call.data)
    /\ HeaderId(call.data) = IdA
    /\ HeaderSeq(call.data) = 1
    /\ HeaderTotal(call.data) = 3
    /\ clock = 1
    /\ rs = OkSome(<<LetterA, LetterA + 1>>)
    /\ IdA \notin DOMAIN messages


\* C18 (ingestion touches only its own identifier): an on_data call for a
\* fragment of identifier X creates, changes and removes no state of another
\* identifier; a buffer that is not routed to the merger changes nothing; and
\* on_data removes the state of X only with the call that returns X's message,
\* never for its age. States leave the index only so or through clean_up.
C18_OwnIdentifierOnly ==
    [][(Idle /\ call'.op = "on_data") =>
          IF IsFragment(call'.data)
          THEN LET x == HeaderId(call'.data)
               IN  /\ \A y \in MessageIDs \ {x} :
                        /\ y \in DOMAIN messages' <=> y \in DOMAIN messages
                        /\ y \in DOMAIN messages => messages'[y] = messages[y]
                   /\ x \notin DOMAIN messages' <=> rs'.kind = "Some"
          ELSE messages' = messages]_vars

\* The message of IdB completes, and leaves the index, while the state of IdA
\* holds two runs.
C18_Witness ==
    /\ ~Idle /\ call.op = "on_data" /\ IsFragment(call.data)
    /\ HeaderId(call.data) = IdB
    /\ rs.kind = "Some"
    /\ IdB \notin DOMAIN messages
    /\ IdA \in DOMAIN messages
    /\ Len(messages[IdA].sorted_chunks) = 2

\* The fragment of the step is the next one of a message arriving in
\* ascending order, or the duplicate of one received: its identifier has no
\* state (or a state emptied by a failed completion) and it is fragment 0, or
\* the state holds the one run [0, k] and the fragment is one of 0..k+1.
AscendingStep ==
    /\ FragmentStep
    /\ LET pre == RunsOf(messages, HeaderId(call'.data))
           seq == HeaderSeq(call'.data)
       IN  \/ pre = <<>> /\ seq = 0
           \/ Len(pre) = 1 /\ pre[1].start = 0 /\ seq <= pre[1].end + 1

\* C19 (sequential arrival never allocates a new run): while the fragments of
\* a message arrive in ascending order 0, 1, 2, ..., duplicates of received
\* fragments allowed, the state holds after each call exactly one run [0, k],
\* k the highest sequence number received, with the payloads of 0..k in
\* order, until the message completes.
C19_SequentialOneRun ==
    [][(AscendingStep /\ rs' = OkNone) =>
          LET id == HeaderId(call'.data)
              seq == HeaderSeq(call'.data)
              pre == RunsOf(messages, id)
              post == RunsOf(messages', id)
              k == IF pre = <<>> THEN seq
                   ELSE IF seq > pre[1].end THEN seq ELSE pre[1].end
          IN  /\ Len(post) = 1
              /\ post[1].start = 0
              /\ post[1].end = k
              /\ post[1].data =
                    IF pre = <<>> THEN PayloadOf(call'.data)
                    ELSE IF seq > pre[1].end THEN pre[1].data \o PayloadOf(call'.data)
                    ELSE pre[1].data]_vars

\* Fragments 0 and 1 of a three-fragment message, in this order: one run
\* [0, 1] holding both payloads.
C19_Witness ==
    /\ ~Idle /\ call.op = "on_data" /\ IsFragment(call.data)
    /\ HeaderId(call.data) = IdA /\ HeaderSeq(call.data) = 1
    /\ rs = OkNone
    /\ IdA \in DOMAIN messages
    /\ messages[IdA].total_seq = 3
    /\ Len(messages[IdA].sorted_chunks) = 1
    /\ messages[IdA].sorted_chunks[1].start = 0
    /\ messages[IdA].sorted_chunks[1].end = 1
    /\ Len(messages[IdA].sorted_chunks[1].data) = 2


====
